---- MODULE Spec2Model ----
(***************************************************************************)
(* A model of the JSON-file backed key-value store of src/db/modules:      *)
(* Column (prepare_value / validate), parse_key_provider, and the Database *)
(* engine (constructor and register, insert, get, update, delete,         *)
(* increment, decrement, _migrate, query) over one document file, and      *)
(* Query.resolve.                                                          *)
(*                                                                         *)
(* Python values are tagged pairs <<type name, payload>>, so that values   *)
(* of different types can be compared the way Python's == compares them.   *)
(* A raised exception is the pair <<"raise", exception class name>>.       *)
(***************************************************************************)
EXTENDS Integers, Sequences, FiniteSets, TLC

VARIABLES
    file,       \* the document file of the database: [exists, doc, text, dump]
    register,   \* Database.register: the set of registered database names
    handles,    \* the Database objects constructed so far: handle -> [columns]
    dbmodel,    \* the DBModel the engine was declared with (key_provider, flags)
    last,       \* the last public call: its arguments, outcome and the file before it
    inflight    \* per process: the call it is in, between its load and its save

vars == <<file, register, handles, dbmodel, last, inflight>>

-----------------------------------------------------------------------------
(* Python values *)

PInt(n) == <<"int", n>>
PStr(s) == <<"str", s>>
PList(q) == <<"list", q>>
PDict(f) == <<"dict", f>>
PNone == <<"NoneType", 0>>
PBool(b) == <<"bool", b>>
\* A float is written base + d: base is "0" for 0.0 and "2^53" for
\* 9007199254740992.0, and d is an integer of small magnitude. The doubles near
\* the two bases are the integers below 2^53 and the even integers above it.
PFloat(base, d) == <<"float", <<base, d>>>>
Raise(e) == <<"raise", e>>

TypeOf(x) == x[1]
Val(x) == x[2]
IsRaise(x) == x[1] = "raise"

\* isinstance(value, type_): bool is a subclass of int
IsInstance(value, type_) ==
    TypeOf(value) = type_ \/ (type_ = "int" /\ TypeOf(value) = "bool")

\* x + k for a float x and k = 1 or k = -1: the exact sum when it is a double,
\* else the nearer double, and of two equally near the one of even mantissa
FloatAdd(x, k) ==
    LET base == Val(x)[1]
        d == Val(x)[2] + k
    IN  IF base = "0" \/ d <= 0 \/ d % 2 = 0 THEN PFloat(base, d)
        ELSE IF (d - 1) % 4 = 0 THEN PFloat(base, d - 1)
        ELSE PFloat(base, d + 1)

EmptyDict == [k \in {} |-> PNone]

\* d1 | d2 : the entries of d2, and the entries of d1 under the other keys
DictMerge(d1, d2) ==
    [k \in (DOMAIN d1) \cup (DOMAIN d2) |-> IF k \in DOMAIN d2 THEN d2[k] ELSE d1[k]]

DictWithout(d, key) == [k \in (DOMAIN d) \ {key} |-> d[k]]

\* value in list
ListContains(q, v) == \E i \in 1..Len(q) : q[i] = v

\* list.remove(v): the first occurrence of v leaves, the rest keeps its order
ListRemove(q, v) ==
    LET i == CHOOSE j \in 1..Len(q) : q[j] = v /\ \A h \in 1..(j - 1) : q[h] # v
    IN  SubSeq(q, 1, i - 1) \o SubSeq(q, i + 1, Len(q))

-----------------------------------------------------------------------------
(* Constants of database.py *)

NOT_REQUIRED == PStr("_NOTREQ")
KEY_AS_UUID4 == "_UUID4KEY"
EXACT_PREFIX == "_EXACT:"
UNDEFINED_DEFAULT_VALUE == NOT_REQUIRED

-----------------------------------------------------------------------------
(* Strings *)

StartsWith(s, p) == Len(s) >= Len(p) /\ SubSeq(s, 1, Len(p)) = p

RemovePrefix(s, p) == IF StartsWith(s, p) THEN SubSeq(s, Len(p) + 1, Len(s)) ELSE s

Chars(s) == [i \in 1..Len(s) |-> SubSeq(s, i, i)]

HasChar(s, c) == \E i \in 1..Len(s) : SubSeq(s, i, i) = c

\* s.split(c), for a separator of one character
RECURSIVE Split(_, _)
Split(s, c) ==
    IF ~HasChar(s, c) THEN <<s>>
    ELSE LET i == CHOOSE j \in 1..Len(s) :
                      SubSeq(s, j, j) = c /\ \A h \in 1..(j - 1) : SubSeq(s, h, h) # c
         IN  <<SubSeq(s, 1, i - 1)>> \o Split(SubSeq(s, i + 1, Len(s)), c)

Digits == <<"0", "1", "2", "3", "4", "5", "6", "7", "8", "9">>
IsDigit(c) == \E i \in 1..Len(Digits) : Digits[i] = c
DigitVal(c) == (CHOOSE i \in 1..Len(Digits) : Digits[i] = c) - 1
IsDecimal(s) == Len(s) > 0 /\ \A i \in 1..Len(s) : IsDigit(SubSeq(s, i, i))

RECURSIVE DecimalVal(_)
DecimalVal(s) ==
    IF Len(s) = 0 THEN 0
    ELSE Len(Digits) * DecimalVal(SubSeq(s, 1, Len(s) - 1)) + DigitVal(SubSeq(s, Len(s), Len(s)))

\* hashlib.sha1(seed.encode()).hexdigest(): the digest is kept symbolic, one
\* digest text per seed (no collision of SHA-1 is modelled)
Sha1Hex(seed) == "sha1(" \o seed \o ")"

-----------------------------------------------------------------------------
(* Python's str(), repr() and the constructors int(), list(), dict() *)

RECURSIVE py_repr(_)
RECURSIVE JoinRepr(_)
JoinRepr(q) ==
    IF Len(q) = 0 THEN ""
    ELSE IF Len(q) = 1 THEN py_repr(q[1])
    ELSE py_repr(q[1]) \o ", " \o JoinRepr(Tail(q))

\* repr of a dict depends on its insertion order, which a dict of this model
\* does not keep: it is defined for dicts of at most one entry
py_repr(v) ==
    CASE TypeOf(v) = "int" -> ToString(Val(v))
      [] TypeOf(v) = "str" -> "'" \o Val(v) \o "'"
      [] TypeOf(v) = "NoneType" -> "None"
      [] TypeOf(v) = "bool" -> IF Val(v) THEN "True" ELSE "False"
      [] TypeOf(v) = "float" /\ Val(v)[1] = "0" -> ToString(Val(v)[2]) \o ".0"
      [] TypeOf(v) = "list" -> "[" \o JoinRepr(Val(v)) \o "]"
      [] TypeOf(v) = "dict" /\ DOMAIN Val(v) = {} -> "{}"
      [] TypeOf(v) = "dict" /\ Cardinality(DOMAIN Val(v)) = 1 ->
            LET k == CHOOSE x \in DOMAIN Val(v) : TRUE
            IN  "{" \o py_repr(k) \o ": " \o py_repr(Val(v)[k]) \o "}"

py_str(v) == IF TypeOf(v) = "str" THEN Val(v) ELSE py_repr(v)

\* dict(iterable): each element must itself be a pair; a later pair with the
\* same key wins. Elements are lists or strings here.
RECURSIVE dict_of_seq(_, _)
dict_of_seq(q, acc) ==
    IF Len(q) = 0 THEN PDict(acc)
    ELSE LET e == Head(q)
             pair == CASE TypeOf(e) = "list" -> Val(e)
                       [] TypeOf(e) = "str" -> [i \in 1..Len(Val(e)) |-> PStr(Chars(Val(e))[i])]
         IN  IF TypeOf(e) \notin {"list", "str"} THEN Raise("TypeError")
             ELSE IF Len(pair) # 2 THEN Raise("ValueError")
             ELSE IF TypeOf(pair[1]) \in {"list", "dict"} THEN Raise("TypeError")
             ELSE dict_of_seq(Tail(q), DictMerge(acc, [k \in {pair[1]} |-> pair[2]]))

\* int(value)
py_int(value) ==
    CASE TypeOf(value) = "int" -> value
      [] TypeOf(value) = "bool" -> PInt(IF Val(value) THEN 1 ELSE 0)
      [] TypeOf(value) = "float" /\ Val(value)[1] = "0" -> PInt(Val(value)[2])
      [] TypeOf(value) = "str" ->
            IF IsDecimal(Val(value)) THEN PInt(DecimalVal(Val(value))) ELSE Raise("ValueError")
      [] TypeOf(value) \in {"list", "dict", "NoneType"} -> Raise("TypeError")

\* float(value)
py_float(value) ==
    CASE TypeOf(value) = "float" -> value
      [] TypeOf(value) = "int" -> PFloat("0", Val(value))
      [] TypeOf(value) = "bool" -> PFloat("0", IF Val(value) THEN 1 ELSE 0)
      [] TypeOf(value) = "str" ->
            IF IsDecimal(Val(value)) THEN PFloat("0", DecimalVal(Val(value)))
            ELSE Raise("ValueError")
      [] OTHER -> Raise("TypeError")

\* bool(value): the truth value
py_bool(value) ==
    CASE TypeOf(value) = "bool" -> value
      [] TypeOf(value) = "int" -> PBool(Val(value) # 0)
      [] TypeOf(value) = "float" -> PBool(value # PFloat("0", 0))
      [] TypeOf(value) = "str" -> PBool(Val(value) # "")
      [] TypeOf(value) = "list" -> PBool(Len(Val(value)) > 0)
      [] TypeOf(value) = "dict" -> PBool(DOMAIN Val(value) # {})
      [] TypeOf(value) = "NoneType" -> PBool(FALSE)

\* list(value); the keys of a dict come in insertion order, which a dict of
\* this model does not keep: defined for dicts of at most one entry
py_list(value) ==
    CASE TypeOf(value) = "list" -> value
      [] TypeOf(value) = "str" -> PList([i \in 1..Len(Val(value)) |-> PStr(Chars(Val(value))[i])])
      [] TypeOf(value) = "dict" /\ Cardinality(DOMAIN Val(value)) <= 1 ->
            PList(IF DOMAIN Val(value) = {} THEN <<>>
                  ELSE <<CHOOSE k \in DOMAIN Val(value) : TRUE>>)
      [] TypeOf(value) \in {"int", "float", "bool", "NoneType"} -> Raise("TypeError")

\* dict(value)
py_dict(value) ==
    CASE TypeOf(value) = "dict" -> value
      [] TypeOf(value) = "str" ->
            IF Val(value) = "" THEN PDict(EmptyDict) ELSE Raise("ValueError")
      [] TypeOf(value) = "list" -> dict_of_seq(Val(value), EmptyDict)
      [] OTHER -> Raise("TypeError")

\* type_(value) for the column types
type_call(type_, value) ==
    CASE type_ = "str" -> PStr(py_str(value))
      [] type_ = "int" -> py_int(value)
      [] type_ = "float" -> py_float(value)
      [] type_ = "bool" -> py_bool(value)
      [] type_ = "list" -> py_list(value)
      [] type_ = "dict" -> py_dict(value)

\* type_() : the zero value of a column type
type_zero(type_) ==
    CASE type_ = "str" -> PStr("")
      [] type_ = "int" -> PInt(0)
      [] type_ = "float" -> PFloat("0", 0)
      [] type_ = "bool" -> PBool(FALSE)
      [] type_ = "list" -> PList(<<>>)
      [] type_ = "dict" -> PDict(EmptyDict)

-----------------------------------------------------------------------------
(* The document file: Path.save_json_content followed by Path.get_json_content *)

\* json.dump writes a dict key that is an int or None as a string
json_key(k) ==
    CASE TypeOf(k) = "str" -> Val(k)
      [] TypeOf(k) = "int" -> ToString(Val(k))
      [] TypeOf(k) = "NoneType" -> "null"

\* json.loads(json.dumps(v)). Two keys of one dict that are written as the same
\* string (1 and "1") would leave the later one; no dict of the model has both.
RECURSIVE json_value(_)
json_value(v) ==
    CASE TypeOf(v) = "list" -> PList([i \in 1..Len(Val(v)) |-> json_value(Val(v)[i])])
      [] TypeOf(v) = "dict" ->
            PDict([s \in {PStr(json_key(k)) : k \in DOMAIN Val(v)} |->
                      json_value(Val(v)[CHOOSE k \in DOMAIN Val(v) : PStr(json_key(k)) = s])])
      [] OTHER -> v

\* the document read back after db_content was saved
save_json_content(db_content) ==
    [key \in DOMAIN db_content |->
        [column_name \in DOMAIN db_content[key] |-> json_value(db_content[key][column_name])]]

EmptyDoc == [key \in {} |-> EmptyDict]

-----------------------------------------------------------------------------
(* The record type: the User model of db.py (name, age = 18, attrs =       *)
(* NOT_REQUIRED), with three more fields, so that the schema has a column  *)
(* of each type: meta: dict = NOT_REQUIRED, score: float = 0.0 and         *)
(* active: bool = False                                                    *)

ModelName == "User"

Fields == <<"name", "age", "attrs", "meta", "score", "active">>

FieldSet == {Fields[i] : i \in 1..Len(Fields)}

Annotations ==
    [name |-> "str", age |-> "int", attrs |-> "list", meta |-> "dict",
     score |-> "float", active |-> "bool"]

\* the class attributes that give a field its default
ClassDefaults ==
    [age |-> PInt(18), attrs |-> NOT_REQUIRED, meta |-> NOT_REQUIRED,
     score |-> PFloat("0", 0), active |-> PBool(FALSE)]

\* model_cls(**kwargs): the dataclass constructor
model_cls(kwargs) ==
    IF \E k \in DOMAIN kwargs : k \notin FieldSet THEN Raise("TypeError")
    ELSE IF \E f \in FieldSet : f \notin DOMAIN kwargs /\ f \notin DOMAIN ClassDefaults
         THEN Raise("TypeError")
    ELSE <<"model", [f \in FieldSet |-> IF f \in DOMAIN kwargs THEN kwargs[f] ELSE ClassDefaults[f]]>>

\* asdict(model): the fields alone, without the _key attribute
asdict(obj) == [f \in FieldSet |-> obj[f]]

-----------------------------------------------------------------------------
(* Column *)

Column(name, type_, default) == [name |-> name, type_ |-> type_, default |-> default]

\* a prepare_value that gives the zero value where the conversion fails
prepare_value_lenient(column, value) ==
    IF value = NOT_REQUIRED \/ value = PNone
    THEN IF column.default = UNDEFINED_DEFAULT_VALUE
         THEN type_zero(column.type_)
         ELSE column.default
    ELSE IF ~IsInstance(value, column.type_)
         THEN IF IsRaise(type_call(column.type_, value))
              THEN type_zero(column.type_)
              ELSE type_call(column.type_, value)
         ELSE value

prepare_value(column, value) ==
    IF value = NOT_REQUIRED \/ value = PNone
    THEN IF column.default = UNDEFINED_DEFAULT_VALUE
         THEN type_zero(column.type_)
         ELSE column.default
    ELSE IF ~IsInstance(value, column.type_)
         THEN type_call(column.type_, value)
         ELSE value

validate(column, value) == IsInstance(value, column.type_)

-----------------------------------------------------------------------------
(* parse_key_provider *)

\* the loop of the "+" branch: key_seed += getattr(model, attr)
RECURSIVE concat_attrs(_, _, _)
concat_attrs(attributes, model, key_seed) ==
    IF Len(attributes) = 0 THEN PStr(key_seed)
    ELSE IF Head(attributes) \notin DOMAIN model THEN Raise("AttributeError")
    ELSE IF TypeOf(model[Head(attributes)]) # "str" THEN Raise("TypeError")
    ELSE concat_attrs(Tail(attributes), model, key_seed \o Val(model[Head(attributes)]))

\* a key provider parser that takes every provider for KEY_AS_UUID4
parse_key_provider_random(key_provider, model, uuid) == PStr(uuid)

\* uuid is the hex text uuid.uuid4() gives on this call
parse_key_provider(key_provider, model, uuid) ==
    IF key_provider = KEY_AS_UUID4 THEN PStr(uuid)
    ELSE IF StartsWith(key_provider, EXACT_PREFIX)
         THEN PStr(RemovePrefix(key_provider, EXACT_PREFIX))
    ELSE LET no_hash == StartsWith(key_provider, "!")
             provider == RemovePrefix(key_provider, "!")
             key_seed == IF HasChar(provider, "+")
                         THEN concat_attrs(Split(provider, "+"), model, "")
                         ELSE IF provider \notin DOMAIN model THEN Raise("AttributeError")
                         ELSE PStr(py_str(model[provider]))
         IN  IF IsRaise(key_seed) \/ no_hash THEN key_seed
             ELSE PStr(Sha1Hex(Val(key_seed)))

-----------------------------------------------------------------------------
(* Database *)

\* __build_from_model: one Column per annotated field
build_from_model ==
    [field_name \in FieldSet |->
        Column(field_name, Annotations[field_name],
               IF field_name \in DOMAIN ClassDefaults THEN ClassDefaults[field_name]
               ELSE UNDEFINED_DEFAULT_VALUE)]

NoColumns == [field_name \in {} |-> Column("", "", PNone)]

\* The document file: text is "" when the file holds the JSON text of doc, and
\* otherwise the text of the file, which json.loads does not parse (doc is then
\* EmptyDoc); dump is the text of the file <filepath>.dump, "" without that file.
NoFile == [exists |-> FALSE, doc |-> EmptyDoc, text |-> "", dump |-> ""]

JsonFile(doc) == [exists |-> TRUE, doc |-> doc, text |-> "", dump |-> ""]

\* what __ensure_db_file writes in front of the corrupted content
DUMP_MARKER == "\n\n--- DUMP ---\n"

\* __get_db_content raises: json.loads refuses the text of the file
Undecodable(f) == f.text # ""

\* __ensure_db_file: the file it leaves, and the JSONDecodeError it lets through.
\* Path.write opens the dump file in mode "a": the dump is appended to it.
ensure_db_file(f, dump_on_error) ==
    IF ~f.exists THEN [file |-> [f EXCEPT !.exists = TRUE, !.doc = EmptyDoc], ret |-> PNone]
    ELSE IF f.text = "" THEN [file |-> f, ret |-> PNone]
    ELSE IF ~dump_on_error THEN [file |-> f, ret |-> Raise("JSONDecodeError")]
    ELSE [file |-> [f EXCEPT !.doc = EmptyDoc, !.text = "",
                             !.dump = f.dump \o DUMP_MARKER \o f.text],
          ret |-> PNone]

\* Database.__init__: the object the constructor call evaluates to, with the
\* register and the file it leaves. Rebinding self (line 132) changes nothing
\* outside __init__: the caller gets the new object, whose columns are empty.
\* ret is the JSONDecodeError that leaves the constructor, when it does: there
\* is no object then, and nothing is registered.
DatabaseInit(reg, f) ==
    IF ModelName \in reg
    THEN [handle |-> [columns |-> NoColumns], register |-> reg, file |-> f,
          ret |-> PNone, wrote |-> FALSE]
    ELSE LET ensured == ensure_db_file(f, dbmodel.dump_on_error)
         IN  IF IsRaise(ensured.ret)
             THEN [handle |-> [columns |-> NoColumns], register |-> reg, file |-> f,
                   ret |-> ensured.ret, wrote |-> FALSE]
             ELSE [handle |-> [columns |-> build_from_model],
                   register |-> reg \cup {ModelName},
                   file |-> ensured.file,
                   ret |-> PNone,
                   wrote |-> ensured.file # f]

\* the loop of __save_model (lines 189-209) over the fields that are left:
\* the content built, <<"return">> for the bare return, or the exception
RECURSIVE save_loop(_, _, _, _, _)
save_loop(columns, allow_invalid_values, model, names, content) ==
    IF Len(names) = 0 THEN <<"content", content>>
    ELSE LET column_name == Head(names)
         IN  IF column_name \notin DOMAIN columns
             THEN Raise("AttributeError")   \* None.prepare_value
             ELSE LET column == columns[column_name]
                      prepared == prepare_value(column, model[column_name])
                      value == IF validate(column, prepared) THEN prepared
                               ELSE IF column.default # UNDEFINED_DEFAULT_VALUE THEN column.default
                               ELSE IF allow_invalid_values THEN type_zero(column.type_)
                               ELSE <<"return">>
                  IN  IF IsRaise(prepared) THEN prepared
                      ELSE IF value = <<"return">> THEN value
                      ELSE save_loop(columns, allow_invalid_values, model, Tail(names),
                                     [c \in (DOMAIN content) \cup {column_name} |->
                                         IF c = column_name THEN value ELSE content[c]])

\* __save_model: db_key is PNone when the key is to be derived.
\* Gives the document left in the file, what the call returns or raises, and
\* whether it wrote the file (save_json_content was called).
\* a __save_model that writes a document holding the saved record alone
save_model_alone(db, doc, model, db_key, uuid) ==
    LET key == IF db_key = PNone
               THEN parse_key_provider(dbmodel.key_provider, model, uuid)
               ELSE db_key
        built == save_loop(db.columns, dbmodel.allow_invalid_values, asdict(model), Fields, EmptyDict)
    IN  IF IsRaise(key) THEN [doc |-> doc, ret |-> key, wrote |-> FALSE]
        ELSE IF IsRaise(built) THEN [doc |-> doc, ret |-> built, wrote |-> FALSE]
        ELSE IF built = <<"return">> THEN [doc |-> doc, ret |-> PNone, wrote |-> FALSE]
        ELSE [doc |-> save_json_content([k \in {Val(key)} |-> built[2]]),
              ret |-> key,
              wrote |-> TRUE]

save_model(db, doc, model, db_key, uuid) ==
    LET key == IF db_key = PNone
               THEN parse_key_provider(dbmodel.key_provider, model, uuid)
               ELSE db_key
        built == save_loop(db.columns, dbmodel.allow_invalid_values, asdict(model), Fields, EmptyDict)
    IN  IF IsRaise(key) THEN [doc |-> doc, ret |-> key, wrote |-> FALSE]
        ELSE IF IsRaise(built) THEN [doc |-> doc, ret |-> built, wrote |-> FALSE]
        ELSE IF built = <<"return">> THEN [doc |-> doc, ret |-> PNone, wrote |-> FALSE]
        ELSE [doc |-> save_json_content(
                        [k \in (DOMAIN doc) \cup {Val(key)} |->
                            IF k = Val(key) THEN built[2] ELSE doc[k]]),
              ret |-> key,
              wrote |-> TRUE]

insert(db, doc, data, uuid) == save_model(db, doc, data, PNone, uuid)

\* get: the model object, with its _key attribute, or KeyNotFound
get(doc, key) ==
    IF key \notin DOMAIN doc THEN Raise("KeyNotFound")
    ELSE LET model_object == model_cls(doc[key])
         IN  IF IsRaise(model_object) THEN model_object
             ELSE <<"model", [a \in FieldSet \cup {"_key"} |->
                                IF a = "_key" THEN PStr(key) ELSE model_object[2][a]]>>

\* a delete that writes the document back with the entry still in it
delete_nothing(doc, key) ==
    IF key \notin DOMAIN doc THEN [doc |-> doc, ret |-> Raise("KeyNotFound"), wrote |-> FALSE]
    ELSE [doc |-> save_json_content(doc), ret |-> PNone, wrote |-> TRUE]

delete(doc, key) ==
    IF key \notin DOMAIN doc THEN [doc |-> doc, ret |-> Raise("KeyNotFound"), wrote |-> FALSE]
    ELSE [doc |-> save_json_content([k \in (DOMAIN doc) \ {key} |-> doc[k]]),
          ret |-> PNone, wrote |-> TRUE]

\* current_data.update(value) on a dict: dict.update returns None when it
\* succeeds, and raises what dict(value) raises when value is no mapping
dict_update(current_data, value) ==
    IF IsRaise(py_dict(value)) THEN py_dict(value) ELSE PNone

\* current_data.pop(value) on a dict, then value = current_data
dict_pop(current_data, value) ==
    IF TypeOf(value) \in {"list", "dict"} THEN Raise("TypeError")
    ELSE IF value \notin DOMAIN Val(current_data) THEN Raise("KeyError")
    ELSE PDict(DictWithout(Val(current_data), value))

\* a changed_value that puts an appended element first
changed_value_prepend(current_data, value, iter_append, iter_pop) ==
    IF iter_append
    THEN CASE TypeOf(current_data) = "list" -> PList(<<value>> \o Val(current_data))
           [] TypeOf(current_data) = "dict" -> dict_update(current_data, value)
           [] OTHER -> value
    ELSE IF iter_pop
    THEN CASE TypeOf(current_data) = "list" ->
                IF ListContains(Val(current_data), value)
                THEN PList(ListRemove(Val(current_data), value))
                ELSE <<"return">>
           [] TypeOf(current_data) = "dict" -> dict_pop(current_data, value)
           [] OTHER -> value
    ELSE value

\* the value one change sets (lines 266-284): a value, <<"return">> for the
\* bare return of line 281, or the exception
changed_value(current_data, value, iter_append, iter_pop) ==
    IF iter_append
    THEN CASE TypeOf(current_data) = "list" -> PList(Val(current_data) \o <<value>>)
           [] TypeOf(current_data) = "dict" -> dict_update(current_data, value)
           [] OTHER -> value
    ELSE IF iter_pop
    THEN CASE TypeOf(current_data) = "list" ->
                IF ListContains(Val(current_data), value)
                THEN PList(ListRemove(Val(current_data), value))
                ELSE <<"return">>
           [] TypeOf(current_data) = "dict" -> dict_pop(current_data, value)
           [] OTHER -> value
    ELSE value

\* an update loop that goes on to the next change (continue) where the value
\* to remove is absent
RECURSIVE update_loop_skip(_, _, _, _)
update_loop_skip(model_object, changes, iter_append, iter_pop) ==
    IF Len(changes) = 0 THEN <<"model", model_object>>
    ELSE LET key_name == Head(changes)[1]
             value == changed_value(model_object[key_name], Head(changes)[2], iter_append, iter_pop)
         IN  IF key_name \notin DOMAIN model_object
             THEN update_loop_skip(model_object, Tail(changes), iter_append, iter_pop)
             ELSE IF IsRaise(value) THEN value
             ELSE IF value = <<"return">>
                  THEN update_loop_skip(model_object, Tail(changes), iter_append, iter_pop)
             ELSE update_loop_skip([model_object EXCEPT ![key_name] = value],
                                   Tail(changes), iter_append, iter_pop)

\* the loop of update over the changes that are left (lines 261-287)
RECURSIVE update_loop(_, _, _, _)
update_loop(model_object, changes, iter_append, iter_pop) ==
    IF Len(changes) = 0 THEN <<"model", model_object>>
    ELSE LET key_name == Head(changes)[1]
             value == changed_value(model_object[key_name], Head(changes)[2], iter_append, iter_pop)
         IN  IF key_name \notin DOMAIN model_object   \* not hasattr: continue
             THEN update_loop(model_object, Tail(changes), iter_append, iter_pop)
             ELSE IF IsRaise(value) \/ value = <<"return">> THEN value
             ELSE update_loop([model_object EXCEPT ![key_name] = value],
                              Tail(changes), iter_append, iter_pop)

\* an update that writes a document holding the updated record alone
update_alone(db, doc, key, changes, iter_append, iter_pop) ==
    IF iter_append /\ iter_pop THEN [doc |-> doc, ret |-> PNone, wrote |-> FALSE]
    ELSE IF IsRaise(get(doc, key)) THEN [doc |-> doc, ret |-> get(doc, key), wrote |-> FALSE]
    ELSE LET changed == update_loop(get(doc, key)[2], changes, iter_append, iter_pop)
             saved == save_model_alone(db, doc, changed[2], PStr(key), "")
         IN  IF IsRaise(changed) THEN [doc |-> doc, ret |-> changed, wrote |-> FALSE]
             ELSE IF changed = <<"return">> THEN [doc |-> doc, ret |-> PNone, wrote |-> FALSE]
             ELSE IF IsRaise(saved.ret) THEN saved
             ELSE [doc |-> saved.doc, ret |-> PNone, wrote |-> saved.wrote]

\* update: changes is the sequence of the items of the changes dict
update(db, doc, key, changes, iter_append, iter_pop) ==
    IF iter_append /\ iter_pop THEN [doc |-> doc, ret |-> PNone, wrote |-> FALSE]
    ELSE IF IsRaise(get(doc, key)) THEN [doc |-> doc, ret |-> get(doc, key), wrote |-> FALSE]
    ELSE LET changed == update_loop(get(doc, key)[2], changes, iter_append, iter_pop)
             saved == save_model(db, doc, changed[2], PStr(key), "")
         IN  IF IsRaise(changed) THEN [doc |-> doc, ret |-> changed, wrote |-> FALSE]
             ELSE IF changed = <<"return">> THEN [doc |-> doc, ret |-> PNone, wrote |-> FALSE]
             ELSE IF IsRaise(saved.ret) THEN saved
             ELSE [doc |-> saved.doc, ret |-> PNone, wrote |-> saved.wrote]

\* a number_add that adds one whatever k is
number_add_up(value, k) ==
    CASE TypeOf(value) = "int" -> PInt(Val(value) + 1)
      [] TypeOf(value) = "bool" -> PInt((IF Val(value) THEN 1 ELSE 0) + 1)
      [] TypeOf(value) = "float" -> FloatAdd(value, 1)

\* value += 1 and value -= 1 (k is 1 or -1) on an int, a bool or a float
number_add(value, k) ==
    CASE TypeOf(value) = "int" -> PInt(Val(value) + k)
      [] TypeOf(value) = "bool" -> PInt((IF Val(value) THEN 1 ELSE 0) + k)
      [] TypeOf(value) = "float" -> FloatAdd(value, k)

\* the common body of increment (k = 1) and decrement (k = -1)
add_to_column(db, doc, key, column_name, k) ==
    IF column_name \notin DOMAIN db.columns
    THEN [doc |-> doc, ret |-> Raise("KeyNotFound"), wrote |-> FALSE]
    ELSE IF IsRaise(get(doc, key)) THEN [doc |-> doc, ret |-> get(doc, key), wrote |-> FALSE]
    ELSE LET model == get(doc, key)[2]
             value == model[column_name]
             saved == save_model(db, doc, [model EXCEPT ![column_name] = number_add(value, k)],
                                 PStr(key), "")
         IN  IF TypeOf(value) \notin {"int", "bool", "float"}   \* not isinstance(value, (int, float))
             THEN [doc |-> doc, ret |-> PBool(FALSE), wrote |-> FALSE]
             ELSE IF IsRaise(saved.ret) THEN saved
             ELSE [doc |-> saved.doc, ret |-> PBool(TRUE), wrote |-> saved.wrote]

increment(db, doc, key, column_name) == add_to_column(db, doc, key, column_name, 1)

decrement(db, doc, key, column_name) == add_to_column(db, doc, key, column_name, -1)

\* a _migrate that sets a column a row lacks to the zero value of its type
migrate_zero(db, doc) ==
    LET new_content ==
            [db_key \in DOMAIN doc |->
                [column_name \in (DOMAIN doc[db_key]) \cup (DOMAIN db.columns) |->
                    IF column_name \in DOMAIN doc[db_key] THEN doc[db_key][column_name]
                    ELSE type_zero(db.columns[column_name].type_)]]
        changes ==
            Cardinality({<<db_key, column_name>> \in (DOMAIN doc) \X (DOMAIN db.columns) :
                            column_name \notin DOMAIN doc[db_key]})
    IN  IF changes # 0
        THEN [doc |-> save_json_content(new_content), ret |-> PInt(changes), wrote |-> TRUE]
        ELSE [doc |-> doc, ret |-> PInt(changes), wrote |-> FALSE]

\* a _migrate that reports the rows it finds and writes the file on every call
migrate_always(db, doc) ==
    [doc |-> save_json_content(
                [db_key \in DOMAIN doc |->
                    [column_name \in (DOMAIN doc[db_key]) \cup (DOMAIN db.columns) |->
                        IF column_name \in DOMAIN doc[db_key] THEN doc[db_key][column_name]
                        ELSE prepare_value(db.columns[column_name], PNone)]]),
     ret |-> PInt(Cardinality(DOMAIN doc)),
     wrote |-> TRUE]

\* _migrate: every column of the engine that a row lacks is set to
\* prepare_value(None); changes counts the columns set, and the file is written
\* when changes is not 0
migrate(db, doc) ==
    LET new_content ==
            [db_key \in DOMAIN doc |->
                [column_name \in (DOMAIN doc[db_key]) \cup (DOMAIN db.columns) |->
                    IF column_name \in DOMAIN doc[db_key] THEN doc[db_key][column_name]
                    ELSE prepare_value(db.columns[column_name], PNone)]]
        changes ==
            Cardinality({<<db_key, column_name>> \in (DOMAIN doc) \X (DOMAIN db.columns) :
                            column_name \notin DOMAIN doc[db_key]})
    IN  IF changes # 0
        THEN [doc |-> save_json_content(new_content), ret |-> PInt(changes), wrote |-> TRUE]
        ELSE [doc |-> doc, ret |-> PInt(changes), wrote |-> FALSE]

-----------------------------------------------------------------------------
(* Query (query.py). A Query object on which a comparison was made is the    *)
(* record [column_name, op, value]; a query tree is a sequence of clauses,  *)
(* each a sequence of such records.                                         *)

Comparisons == {"==", "!=", "<", ">", "<=", ">=", "in"}

\* Query(column_name) <op> value; "in" stands for __contains__(value)
Compared(column_name, op, value) == [column_name |-> column_name, op |-> op, value |-> value]

IsNumber(x) == TypeOf(x) \in {"int", "bool", "float"}

\* a == b in Python: numbers are equal by value whatever their types
py_eq(a, b) ==
    IF IsNumber(a) /\ IsNumber(b) THEN py_float(a) = py_float(b) ELSE a = b

\* the characters of the strings that are ordered here, in code point order
Alphabet == "0123456789abcdefghijklmnopqrstuvwxyz"

CharRank(c) == CHOOSE i \in 1..Len(Alphabet) : SubSeq(Alphabet, i, i) = c

\* s < t for two strings: by the first character that differs, else by length
RECURSIVE str_lt(_, _)
str_lt(s, t) ==
    IF Len(t) = 0 THEN FALSE
    ELSE IF Len(s) = 0 THEN TRUE
    ELSE IF SubSeq(s, 1, 1) # SubSeq(t, 1, 1)
         THEN CharRank(SubSeq(s, 1, 1)) < CharRank(SubSeq(t, 1, 1))
    ELSE str_lt(SubSeq(s, 2, Len(s)), SubSeq(t, 2, Len(t)))

\* a < b in Python, for numbers (floats near 0.0) and for strings; values of two
\* kinds, None included, are not ordered: TypeError
py_lt(a, b) ==
    CASE IsNumber(a) /\ IsNumber(b) -> PBool(Val(py_float(a))[2] < Val(py_float(b))[2])
      [] TypeOf(a) = "str" /\ TypeOf(b) = "str" -> PBool(str_lt(Val(a), Val(b)))
      [] TypeOf(a) # TypeOf(b) /\ ~(IsNumber(a) /\ IsNumber(b)) -> Raise("TypeError")

\* value in container
py_in(value, container) ==
    CASE TypeOf(container) = "list" ->
            PBool(\E i \in 1..Len(Val(container)) : py_eq(Val(container)[i], value))
      [] TypeOf(container) = "dict" ->
            IF TypeOf(value) \in {"list", "dict"} THEN Raise("TypeError")
            ELSE PBool(\E k \in DOMAIN Val(container) : py_eq(k, value))
      [] TypeOf(container) = "str" ->
            IF TypeOf(value) # "str" THEN Raise("TypeError")
            ELSE PBool(\E i \in 1..(Len(Val(container)) + 1) :
                          /\ i + Len(Val(value)) - 1 <= Len(Val(container))
                          /\ SubSeq(Val(container), i, i + Len(Val(value)) - 1) = Val(value))
      [] OTHER -> Raise("TypeError")

\* dict.get(column_name): None when the dict has no such key
dict_get(d, column_name) == IF column_name \in DOMAIN d THEN d[column_name] ELSE PNone

\* q._check(res_dict): the lambda that the comparison has set
check(q, res_dict) ==
    LET found == dict_get(res_dict, q.column_name)
        lt == py_lt(found, q.value)
        gt == py_lt(q.value, found)
    IN  CASE q.op = "==" -> PBool(py_eq(found, q.value))
          [] q.op = "!=" -> PBool(~py_eq(found, q.value))
          [] q.op = "<" -> lt
          [] q.op = ">" -> gt
          [] q.op = "<=" -> IF IsRaise(lt) THEN lt ELSE PBool(Val(lt) \/ py_eq(found, q.value))
          [] q.op = ">=" -> IF IsRaise(gt) THEN gt ELSE PBool(Val(gt) \/ py_eq(found, q.value))
          [] q.op = "in" -> py_in(q.value, found)

\* the predicates of a tree, clause after clause
RECURSIVE Flatten(_)
Flatten(query_tree) ==
    IF Len(query_tree) = 0 THEN <<>> ELSE Head(query_tree) \o Flatten(Tail(query_tree))

\* a resolve that asks every clause, not one of them, to have all its predicates true
resolve_every_clause(query_tree, dictmodel) ==
    LET statements == Flatten(query_tree)
    IN  IF \E i \in 1..Len(statements) : IsRaise(check(statements[i], dictmodel))
        THEN Raise("TypeError")
        ELSE PBool(\A i \in 1..Len(statements) : Val(check(statements[i], dictmodel)))

\* Query.resolve: the two list comprehensions evaluate every _check of every
\* clause, so an exception of any of them leaves resolve
resolve(query_tree, dictmodel) ==
    LET statements == Flatten(query_tree)
    IN  IF \E i \in 1..Len(statements) : IsRaise(check(statements[i], dictmodel))
        THEN check(statements[CHOOSE i \in 1..Len(statements) :
                        /\ IsRaise(check(statements[i], dictmodel))
                        /\ \A j \in 1..(i - 1) : ~IsRaise(check(statements[j], dictmodel))],
                   dictmodel)
        ELSE PBool(\E c \in 1..Len(query_tree) :
                      \A i \in 1..Len(query_tree[c]) :
                          Val(check(query_tree[c][i], dictmodel)))

\* get_all_keys: the keys of the document (as a set: see get_all_models)
get_all_keys(doc) == <<"keys", DOMAIN doc>>

\* get_all_models: the model objects of the stored rows, or what the first
\* model_cls(**content) that fails raises. The list is in the order of the
\* document, which a document of this model does not keep: it is given as
\* the set of its elements.
get_all_models(doc) ==
    IF \E key \in DOMAIN doc : IsRaise(model_cls(doc[key]))
    THEN Raise("TypeError")
    ELSE <<"models", {get(doc, key)[2] : key \in DOMAIN doc}>>

\* Database.query: the loop body calls q(), and a Query object is not callable,
\* so the first model raises TypeError; without models the empty list returns
query(db, doc, q) ==
    LET models == get_all_models(doc)
    IN  IF IsRaise(models) THEN [doc |-> doc, ret |-> models, wrote |-> FALSE]
        ELSE IF models[2] = {} THEN [doc |-> doc, ret |-> PList(<<>>), wrote |-> FALSE]
        ELSE [doc |-> doc, ret |-> Raise("TypeError"), wrote |-> FALSE]

-----------------------------------------------------------------------------
(* The public calls as actions. Every call reads the whole document, and a  *)
(* call that saves rewrites it whole.                                       *)

MaxListLen == 4     \* a list-typed column is not appended to beyond this length

MaxCount == 2       \* increment and decrement keep a number within -MaxCount .. MaxCount

NoArg == <<>>

\* The processes that hold an engine on the document file. A call of a process
\* is "read" between db_content = self.__get_db_content() and
\* save_json_content(db_content): read is the document it loaded; it is "done"
\* after its return. overlapped: another call was between its load and its
\* save at some time between the load and the save of this one.
Processes == {"p1", "p2"}

Idle == [pc |-> "idle", op |-> "", key |-> "", arg |-> <<>>, read |-> EmptyDoc,
         ret |-> PNone, overlapped |-> FALSE]

NoInflight == [p \in Processes |-> Idle]

Called(op, h, key, arg, iter_append, iter_pop, out) ==
    /\ file' = [file EXCEPT !.doc = out.doc]
    /\ last' = [op |-> op, h |-> h, key |-> key, arg |-> arg,
                iter_append |-> iter_append, iter_pop |-> iter_pop,
                ret |-> out.ret, wrote |-> out.wrote, before |-> file.doc]
    /\ UNCHANGED <<register, handles, dbmodel, inflight>>

\* h = Database(User)
Construct(h) ==
    /\ h \notin DOMAIN handles
    /\ LET made == DatabaseInit(register, file)
       IN  /\ handles' = IF IsRaise(made.ret) THEN handles
                         ELSE [x \in (DOMAIN handles) \cup {h} |->
                                 IF x = h THEN made.handle ELSE handles[x]]
           /\ register' = made.register
           /\ file' = made.file
           /\ last' = [op |-> "Database", h |-> h, key |-> "", arg |-> NoArg,
                iter_append |-> FALSE, iter_pop |-> FALSE,
                ret |-> made.ret, wrote |-> made.wrote, before |-> file.doc]
    /\ UNCHANGED <<dbmodel, inflight>>

\* what a call gives on the file f: out when the file loads; otherwise what
\* the call did before its first __get_db_content, when that ended the call
\* (preload), or else the JSONDecodeError of that load. The file is not touched.
LoadAll == <<"load">>

OnFile(f, preload, out) ==
    IF ~Undecodable(f) THEN out
    ELSE [doc |-> f.doc,
          ret |-> IF preload = LoadAll THEN Raise("JSONDecodeError") ELSE preload,
          wrote |-> FALSE]

\* __save_model up to line 209, before it loads the document: the exception
\* or the None that ends it there
save_model_preload(db, data, uuid) ==
    LET out == insert(db, EmptyDoc, data, uuid)
    IN  IF out.wrote THEN LoadAll ELSE out.ret

Insert(h, data, uuid) ==
    /\ h \in DOMAIN handles
    /\ Called("insert", h, "", data, FALSE, FALSE,
              OnFile(file, save_model_preload(handles[h], data, uuid),
                     insert(handles[h], file.doc, data, uuid)))

Get(h, key) ==
    /\ h \in DOMAIN handles
    /\ Called("get", h, key, NoArg, FALSE, FALSE,
              OnFile(file, LoadAll,
                     [doc |-> file.doc, ret |-> get(file.doc, key), wrote |-> FALSE]))

\* the lists stored under key have room for one more element
RoomToAppend(key) ==
    key \in DOMAIN file.doc =>
        \A c \in DOMAIN file.doc[key] :
            TypeOf(file.doc[key][c]) = "list" => Len(Val(file.doc[key][c])) < MaxListLen

Update(h, key, changes, iter_append, iter_pop) ==
    /\ h \in DOMAIN handles
    /\ iter_append => RoomToAppend(key)
    /\ Called("update", h, key, changes, iter_append, iter_pop,
              OnFile(file, IF iter_append /\ iter_pop THEN PNone ELSE LoadAll,
                     update(handles[h], file.doc, key, changes, iter_append, iter_pop)))

Delete(h, key) ==
    /\ h \in DOMAIN handles
    /\ Called("delete", h, key, NoArg, FALSE, FALSE, OnFile(file, LoadAll, delete(file.doc, key)))

\* a numeric value stored under key in column_name is below MaxCount (k = 1)
\* or above -MaxCount (k = -1)
RoomToCount(key, column_name, k) ==
    (key \in DOMAIN file.doc /\ column_name \in DOMAIN file.doc[key]) =>
        LET value == file.doc[key][column_name]
            n == CASE TypeOf(value) = "int" -> Val(value)
                   [] TypeOf(value) = "float" -> Val(value)[2]
                   [] OTHER -> 0
        IN  k * n < MaxCount

Increment(h, key, column_name) ==
    /\ h \in DOMAIN handles
    /\ RoomToCount(key, column_name, 1)
    /\ Called("increment", h, key, column_name, FALSE, FALSE,
              OnFile(file, IF column_name \notin DOMAIN handles[h].columns
                           THEN Raise("KeyNotFound") ELSE LoadAll,
                     increment(handles[h], file.doc, key, column_name)))

Decrement(h, key, column_name) ==
    /\ h \in DOMAIN handles
    /\ RoomToCount(key, column_name, -1)
    /\ Called("decrement", h, key, column_name, FALSE, FALSE,
              OnFile(file, IF column_name \notin DOMAIN handles[h].columns
                           THEN Raise("KeyNotFound") ELSE LoadAll,
                     decrement(handles[h], file.doc, key, column_name)))

Migrate(h) ==
    /\ h \in DOMAIN handles
    /\ Called("migrate", h, "", NoArg, FALSE, FALSE,
              OnFile(file, LoadAll, migrate(handles[h], file.doc)))

\* users_db.query(q), for a Query q with the tree query_tree
QueryCall(h, query_tree) ==
    /\ h \in DOMAIN handles
    /\ Called("query", h, "", query_tree, FALSE, FALSE,
              OnFile(file, LoadAll, query(handles[h], file.doc, query_tree)))

GetAllModels(h) ==
    /\ h \in DOMAIN handles
    /\ Called("get_all_models", h, "", NoArg, FALSE, FALSE,
              OnFile(file, LoadAll,
                     [doc |-> file.doc, ret |-> get_all_models(file.doc), wrote |-> FALSE]))

GetAllKeys(h) ==
    /\ h \in DOMAIN handles
    /\ Called("get_all_keys", h, "", NoArg, FALSE, FALSE,
              OnFile(file, LoadAll,
                     [doc |-> file.doc, ret |-> get_all_keys(file.doc), wrote |-> FALSE]))

\* q.resolve(asdict(users_db.get(key))), for a Query q with the tree query_tree
Resolve(h, key, query_tree) ==
    /\ h \in DOMAIN handles
    /\ ~Undecodable(file)
    /\ key \in DOMAIN file.doc
    /\ ~IsRaise(get(file.doc, key))
    /\ Called("resolve", h, key, query_tree, FALSE, FALSE,
              [doc |-> file.doc,
               ret |-> resolve(query_tree, asdict(get(file.doc, key)[2])),
               wrote |-> FALSE])

\* a call that saves what it makes of the current document, not of the one it loaded
finish_on_current(db, c, current) ==
    IF c.op = "insert" THEN insert(db, current, c.arg, "u1") ELSE delete(current, c.key)

\* the rest of __save_model (lines 212-214) or of delete (lines 294-298) after
\* the load: made of the document that the call loaded, whatever the file
\* holds by now (current)
finish(db, c, current) ==
    IF c.op = "insert" THEN insert(db, c.read, c.arg, "u1") ELSE delete(c.read, c.key)

\* process p enters insert(data) (op = "insert") or delete(key) and loads the
\* document: lines 186-211 of __save_model, line 293 of delete
Begin(p, op, key, data) ==
    /\ inflight[p].pc = "idle"
    /\ ~Undecodable(file)
    /\ inflight' = [q \in Processes |->
                        IF q = p
                        THEN [pc |-> "read", op |-> op, key |-> key, arg |-> data,
                              read |-> file.doc, ret |-> PNone,
                              overlapped |-> \E r \in Processes \ {p} : inflight[r].pc = "read"]
                        ELSE IF inflight[q].pc = "read"
                        THEN [inflight[q] EXCEPT !.overlapped = TRUE]
                        ELSE inflight[q]]
    /\ last' = [op |-> "load", h |-> p, key |-> key, arg |-> data,
                iter_append |-> FALSE, iter_pop |-> FALSE,
                ret |-> PNone, wrote |-> FALSE, before |-> file.doc]
    /\ UNCHANGED <<file, register, handles, dbmodel>>

\* process p goes on to the end of its call: it changes the document it
\* loaded and saves it whole, or raises
Finish(p) ==
    /\ inflight[p].pc = "read"
    /\ LET out == finish(handles["users_db"], inflight[p], file.doc)
       IN  /\ file' = IF out.wrote THEN [file EXCEPT !.doc = out.doc] ELSE file
           /\ inflight' = [inflight EXCEPT ![p].pc = "done", ![p].ret = out.ret]
           /\ last' = [op |-> inflight[p].op, h |-> p, key |-> inflight[p].key,
                       arg |-> inflight[p].arg,
                       iter_append |-> FALSE, iter_pop |-> FALSE,
                       ret |-> out.ret, wrote |-> out.wrote, before |-> file.doc]
    /\ UNCHANGED <<register, handles, dbmodel>>

\* another writer, or a write cut short, leaves in the document file a text
\* that json.loads does not parse
Corrupt(text) ==
    /\ file.exists
    /\ file.text # text
    /\ file' = [file EXCEPT !.text = text, !.doc = EmptyDoc]
    /\ last' = [op |-> "corrupt", h |-> "", key |-> "", arg |-> text,
                iter_append |-> FALSE, iter_pop |-> FALSE,
                ret |-> PNone, wrote |-> FALSE, before |-> file.doc]
    /\ UNCHANGED <<register, handles, dbmodel, inflight>>

\* the state after users_db = Database(User) in a directory without the file
InitWith(models) ==
    LET made == DatabaseInit({}, NoFile)
    IN  /\ dbmodel \in models
        /\ register = made.register
        /\ file = made.file
        /\ handles = [h \in {"users_db"} |-> made.handle]
        /\ inflight = NoInflight
        /\ last = [op |-> "Database", h |-> "users_db", key |-> "", arg |-> NoArg,
                   iter_append |-> FALSE, iter_pop |-> FALSE,
                   ret |-> PNone, wrote |-> made.wrote, before |-> EmptyDoc]

\* the keys a caller asks for: the stored ones and one that is not stored
AskedKeys == (DOMAIN file.doc) \cup {"nokey"}

\* User(name, age, attrs, meta): score and active take their class defaults
User(name, age, attrs, meta) ==
    [name |-> name, age |-> age, attrs |-> attrs, meta |-> meta,
     score |-> ClassDefaults["score"], active |-> ClassDefaults["active"]]

\* User(...) with every field given
UserWith(name, age, attrs, meta, score, active) ==
    [name |-> name, age |-> age, attrs |-> attrs, meta |-> meta,
     score |-> score, active |-> active]

Dict1(k, v) == PDict([x \in {k} |-> v])

-----------------------------------------------------------------------------
(* Spec: the calls of db.py, through the registered engine and through a    *)
(* second Database(User) of the same name                                   *)

DemoModels == {[key_provider |-> "name", allow_invalid_values |-> TRUE, dump_on_error |-> TRUE]}

DemoRecords ==
    { User(PStr("tomek"), PInt(12), PList(<<PInt(1)>>), NOT_REQUIRED),
      User(PStr("stas"), PInt(20), NOT_REQUIRED, NOT_REQUIRED) }

DemoChanges == { << <<"age", PInt(18)>> >>, << <<"attrs", PInt(2)>> >> }

HandleNames == {"users_db", "users_db2"}

\* what uuid.uuid4().hex may give to one call
Uuids == {"u1", "u2"}

Init == InitWith(DemoModels)

Next ==
    \/ \E h \in HandleNames : Construct(h)
    \/ \E h \in DOMAIN handles, data \in DemoRecords : Insert(h, data, "u1")
    \/ \E h \in DOMAIN handles, key \in AskedKeys : Get(h, key)
    \/ \E h \in DOMAIN handles, key \in AskedKeys, changes \in DemoChanges,
          iter_append \in BOOLEAN, iter_pop \in BOOLEAN :
            Update(h, key, changes, iter_append, iter_pop)
    \/ \E h \in DOMAIN handles, key \in AskedKeys : Delete(h, key)

Spec == Init /\ [][Next]_vars

-----------------------------------------------------------------------------
(* SpecInsert: insert, get and delete through the registered engine, over   *)
(* the key providers and over records with conforming, absent, convertible  *)
(* and unconvertible values                                                 *)

InsertKeyProviders == {"name", "!name", "!name+name", "name+name", KEY_AS_UUID4, "_EXACT:k"}

InsertModels ==
    {[key_provider |-> kp, allow_invalid_values |-> a, dump_on_error |-> TRUE] : kp \in InsertKeyProviders, a \in BOOLEAN}

InsertRecords ==
    { User(PStr("tomek"), PInt(12), PList(<<PInt(1)>>), Dict1(PStr("a"), PInt(1))),
      User(PStr("tomek"), PInt(13), PList(<<>>), PDict(EmptyDict)),
      User(PStr("stas"), PInt(20), NOT_REQUIRED, NOT_REQUIRED),
      User(PStr("stas"), PNone, PList(<<PInt(2), PInt(1)>>), PNone),
      User(PStr("stas"), PStr("7"), PStr("ab"), PList(<<>>)),
      User(PStr("tomek"), PStr("abc"), PList(<<PInt(1)>>), PDict(EmptyDict)),
      User(PStr("tomek"), PInt(12), PInt(5), PDict(EmptyDict)),
      User(PStr("tomek"), PInt(12), PList(<<>>), PInt(5)),
      User(NOT_REQUIRED, PInt(12), PList(<<PInt(1)>>), PDict(EmptyDict)),
      User(PStr("stas"), PInt(12), PList(<<>>), Dict1(PInt(1), PStr("x"))),
      User(PInt(3), PInt(12), PList(<<PStr("x")>>), PDict(EmptyDict)) }

InitInsert == InitWith(InsertModels)

NextInsert ==
    \/ \E data \in InsertRecords, uuid \in Uuids : Insert("users_db", data, uuid)
    \/ \E key \in AskedKeys : Get("users_db", key)
    \/ \E key \in AskedKeys : Delete("users_db", key)

SpecInsert == InitInsert /\ [][NextInsert]_vars

-----------------------------------------------------------------------------
(* SpecUpdate: update in its three modes (and with both flags) on records   *)
(* with a list-typed and a dict-typed column                                *)

UpdateRecords ==
    { User(PStr("tomek"), PInt(12), PList(<<PInt(1)>>), Dict1(PStr("a"), PInt(1))) }

ListElements == {PInt(2), PInt(3)}

UpdateChanges ==
    { << <<"attrs", v>> >> : v \in ListElements }
    \cup { << <<"age", PInt(13)>>, <<"attrs", PInt(2)>> >>,
           << <<"meta", Dict1(PStr("b"), PInt(2))>> >>,
           << <<"meta", PStr("a")>> >>,
           << <<"meta", PStr("b")>> >>,
           << <<"nocolumn", PInt(1)>>, <<"age", PInt(13)>> >> }

InitUpdate == InitWith(DemoModels)

NextUpdate ==
    \/ \E data \in UpdateRecords : Insert("users_db", data, "u1")
    \/ \E key \in AskedKeys, changes \in UpdateChanges,
          iter_append \in BOOLEAN, iter_pop \in BOOLEAN :
            Update("users_db", key, changes, iter_append, iter_pop)

SpecUpdate == InitUpdate /\ [][NextUpdate]_vars

-----------------------------------------------------------------------------
(* SpecCount: increment and decrement on a record with an int, a float and  *)
(* a bool column, the float at 0.0 and at 2^53                              *)

CountModels == {[key_provider |-> "_EXACT:k", allow_invalid_values |-> TRUE, dump_on_error |-> TRUE]}

CountRecords ==
    { UserWith(PStr("tomek"), PInt(0), PList(<<PInt(1)>>), PDict(EmptyDict),
               PFloat("0", 0), PBool(FALSE)),
      UserWith(PStr("stas"), PInt(1), PList(<<>>), PDict(EmptyDict),
               PFloat("2^53", 0), PBool(TRUE)) }

\* the column names a caller asks for: the fields and one that is no column
AskedColumns == FieldSet \cup {"nocolumn"}

InitCount == InitWith(CountModels)

NextCount ==
    \/ \E data \in CountRecords : Insert("users_db", data, "u1")
    \/ \E key \in AskedKeys, column_name \in AskedColumns :
            Increment("users_db", key, column_name)
    \/ \E key \in AskedKeys, column_name \in AskedColumns :
            Decrement("users_db", key, column_name)

SpecCount == InitCount /\ [][NextCount]_vars

-----------------------------------------------------------------------------
(* SpecMigrate: the engine is constructed on a file that an earlier run     *)
(* wrote, with rows from before the schema gained columns                   *)

\* the columns of the schema at two earlier times
OldSchemas == { {"name"}, {"name", "age", "attrs", "meta", "score"} }

\* rows as an earlier run left them, and a row of the schema as it is
StoredRows ==
    { [c \in columns |->
          UserWith(PStr("ola"), PInt(30), PList(<<PInt(1)>>), PDict(EmptyDict),
                   PFloat("0", 1), PBool(TRUE))[c]] : columns \in OldSchemas \cup {FieldSet} }

StoredKeys == {"k1", "k2"}

StoredDocuments ==
    UNION { [keys -> StoredRows] : keys \in SUBSET StoredKeys }

MigrateRecords ==
    { UserWith(PStr("tomek"), PInt(12), PList(<<>>), PDict(EmptyDict), PFloat("0", 0), PBool(FALSE)) }

InitMigrate ==
    \E doc \in StoredDocuments :
        LET made == DatabaseInit({}, JsonFile(doc))
        IN  /\ dbmodel \in DemoModels
            /\ register = made.register
            /\ file = made.file
            /\ handles = [h \in {"users_db"} |-> made.handle]
            /\ inflight = NoInflight
            /\ last = [op |-> "Database", h |-> "users_db", key |-> "", arg |-> NoArg,
                       iter_append |-> FALSE, iter_pop |-> FALSE,
                       ret |-> PNone, wrote |-> made.wrote, before |-> doc]

NextMigrate ==
    \/ Migrate("users_db")
    \/ \E data \in MigrateRecords : Insert("users_db", data, "u1")
    \/ \E key \in AskedKeys : Get("users_db", key)
    \/ \E key \in AskedKeys : Delete("users_db", key)

SpecMigrate == InitMigrate /\ [][NextMigrate]_vars

-----------------------------------------------------------------------------
(* SpecDelete: insert, get, update and delete with keys that the caller     *)
(* keeps and asks for again after they were deleted                         *)

DeleteModels == {[key_provider |-> "!name", allow_invalid_values |-> TRUE, dump_on_error |-> TRUE]}

\* the keys of DemoRecords under "!name", and one that is never stored
KeptKeys == {"tomek", "stas", "nokey"}

InitDelete == InitWith(DeleteModels)

NextDelete ==
    \/ \E data \in DemoRecords : Insert("users_db", data, "u1")
    \/ \E key \in KeptKeys : Get("users_db", key)
    \/ \E key \in KeptKeys, changes \in DemoChanges, iter_append \in BOOLEAN :
            Update("users_db", key, changes, iter_append, FALSE)
    \/ \E key \in KeptKeys : Delete("users_db", key)

SpecDelete == InitDelete /\ [][NextDelete]_vars

-----------------------------------------------------------------------------
(* SpecQuery: queries over stored records, resolved against the flattened   *)
(* records (asdict of the model objects, as Database.query flattens them)   *)
(* and handed to Database.query                                             *)

QueryModels == {[key_provider |-> "!name", allow_invalid_values |-> TRUE, dump_on_error |-> TRUE]}

QueryRecords ==
    { User(PStr("stas"), PInt(12), PList(<<PInt(1)>>), NOT_REQUIRED),
      User(PStr("x"), PInt(20), PList(<<PInt(2)>>), NOT_REQUIRED),
      User(PStr("y"), PInt(10), PList(<<PInt(1), PInt(2)>>), NOT_REQUIRED) }

QueryKeys == {"stas", "x", "y"}

\* comparisons on columns of the model, with values of the column's type
ColumnQueries ==
    {Compared("age", op, PInt(12)) : op \in Comparisons \ {"in"}}
        \cup {Compared("age", ">=", PInt(18)),
              Compared("name", "==", PStr("stas")),
              Compared("name", "<", PStr("y")),
              Compared("name", "in", PStr("ta")),
              Compared("attrs", "in", PInt(1))}

\* comparisons on a column that no flattened record has
MissingQueries == {Compared("nocolumn", op, PInt(1)) : op \in Comparisons}

\* a comparison of a string column with an int
MistypedQueries == {Compared("name", ">=", PInt(18))}

\* the example tree [[age >= 18], [name == "stas"]]
ExampleTree == << <<Compared("age", ">=", PInt(18))>>, <<Compared("name", "==", PStr("stas"))>> >>

QueryTrees ==
    {<< <<q>> >> : q \in ColumnQueries \cup MissingQueries \cup MistypedQueries}
        \cup {<< <<q>>, <<Compared("name", "==", PStr("stas"))>> >> :
                q \in {Compared("age", ">=", PInt(18))} \cup MissingQueries}
        \cup {<< <<Compared("age", ">=", PInt(18)), q>> >> :
                q \in {Compared("name", "==", PStr("x")), Compared("attrs", "in", PInt(1))}}
        \cup {<<>>, << <<>> >>}

InitQuery == InitWith(QueryModels)

NextQuery ==
    \/ \E data \in QueryRecords : Insert("users_db", data, "u1")
    \/ \E key \in QueryKeys, query_tree \in QueryTrees : Resolve("users_db", key, query_tree)
    \/ \E query_tree \in QueryTrees : QueryCall("users_db", query_tree)

SpecQuery == InitQuery /\ [][NextQuery]_vars

-----------------------------------------------------------------------------
(* SpecCorrupt: a program that starts with the document file absent, with a *)
(* JSON document or with a text that does not parse, builds its engines and *)
(* calls them, while the file may get corrupted between two calls           *)

CorruptModels ==
    {[key_provider |-> "!name", allow_invalid_values |-> TRUE, dump_on_error |-> d] :
        d \in BOOLEAN}

\* texts that json.loads refuses
CorruptTexts == {"{bad"}

StartFiles ==
    {NoFile, JsonFile(EmptyDoc)}
        \cup {[exists |-> TRUE, doc |-> EmptyDoc, text |-> t, dump |-> d] :
                t \in CorruptTexts, d \in {"", "old dump"}}

CorruptRecords == {User(PStr("tomek"), PInt(0), NOT_REQUIRED, NOT_REQUIRED)}

\* the key of the record under "!name", and one that is never stored
CorruptKeys == {"tomek", "nokey"}

NoHandles == [h \in {} |-> [columns |-> NoColumns]]

InitCorrupt ==
    /\ dbmodel \in CorruptModels
    /\ register = {}
    /\ file \in StartFiles
    /\ handles = NoHandles
    /\ inflight = NoInflight
    /\ last = [op |-> "start", h |-> "", key |-> "", arg |-> NoArg,
               iter_append |-> FALSE, iter_pop |-> FALSE,
               ret |-> PNone, wrote |-> FALSE, before |-> EmptyDoc]

NextCorrupt ==
    \/ \E h \in HandleNames : Construct(h)
    \/ \E text \in CorruptTexts : Corrupt(text)
    \/ \E h \in DOMAIN handles, data \in CorruptRecords : Insert(h, data, "u1")
    \/ \E h \in DOMAIN handles, key \in CorruptKeys : Get(h, key)
    \/ \E h \in DOMAIN handles, key \in CorruptKeys, both \in BOOLEAN :
            Update(h, key, << <<"age", PInt(18)>> >>, both, both)
    \/ \E h \in DOMAIN handles, key \in CorruptKeys : Delete(h, key)
    \/ \E h \in DOMAIN handles, column_name \in {"age", "nocolumn"} :
            Increment(h, "tomek", column_name)
    \/ \E h \in DOMAIN handles : Migrate(h)
    \/ \E h \in DOMAIN handles : QueryCall(h, ExampleTree)

SpecCorrupt == InitCorrupt /\ [][NextCorrupt]_vars

-----------------------------------------------------------------------------
(* SpecKey: insert, get and delete under composite key providers, over      *)
(* string fields and over fields of other column types                      *)

CompositeKeyProviders == {"name+age", "!name+age", "!age+name", "name+name", "!name+name"}

KeyModels ==
    {[key_provider |-> kp, allow_invalid_values |-> a, dump_on_error |-> TRUE] :
        kp \in CompositeKeyProviders, a \in BOOLEAN}

KeyRecords ==
    { User(PStr("tomek"), PInt(12), NOT_REQUIRED, NOT_REQUIRED),
      User(PStr("tomek"), PInt(20), PList(<<PInt(1)>>), NOT_REQUIRED),
      User(PStr("stas"), PInt(20), NOT_REQUIRED, NOT_REQUIRED),
      User(PStr("stas"), PStr("20"), NOT_REQUIRED, NOT_REQUIRED) }

InitKey == InitWith(KeyModels)

NextKey ==
    \/ \E data \in KeyRecords : Insert("users_db", data, "u1")
    \/ \E key \in AskedKeys : Get("users_db", key)
    \/ \E key \in AskedKeys : Delete("users_db", key)

SpecKey == InitKey /\ [][NextKey]_vars

-----------------------------------------------------------------------------
(* SpecSchema: every write of the engine, from the empty document, with     *)
(* values of their column's type and values of other types                  *)

SchemaModels ==
    {[key_provider |-> "!name", allow_invalid_values |-> a, dump_on_error |-> TRUE] :
        a \in BOOLEAN}

SchemaRecords ==
    { User(PStr("tomek"), PInt(0), PList(<<PInt(1)>>), Dict1(PStr("a"), PInt(1))),
      User(PStr("tomek"), PStr("1"), NOT_REQUIRED, NOT_REQUIRED),
      User(PStr("tomek"), PBool(TRUE), NOT_REQUIRED, NOT_REQUIRED),
      User(PStr("tomek"), PStr("abc"), PInt(5), PDict(EmptyDict)) }

SchemaChanges ==
    { << <<"age", PInt(1)>> >>,
      << <<"age", PBool(FALSE)>> >>,
      << <<"attrs", PInt(1)>> >>,
      << <<"name", PInt(5)>>, <<"nocolumn", PInt(1)>> >> }

SchemaModes == {<<FALSE, FALSE>>, <<TRUE, FALSE>>, <<FALSE, TRUE>>}

InitSchema == InitWith(SchemaModels)

NextSchema ==
    \/ \E data \in SchemaRecords : Insert("users_db", data, "u1")
    \/ \E key \in CorruptKeys, changes \in SchemaChanges, mode \in SchemaModes :
            Update("users_db", key, changes, mode[1], mode[2])
    \/ \E key \in CorruptKeys, column_name \in {"age", "active"} :
            Increment("users_db", key, column_name)
    \/ \E key \in CorruptKeys, column_name \in {"age", "active"} :
            Decrement("users_db", key, column_name)
    \/ \E key \in CorruptKeys : Delete("users_db", key)

SpecSchema == InitSchema /\ [][NextSchema]_vars

-----------------------------------------------------------------------------
(* SpecFrame: writes and reads by key on a document of up to two records    *)

FrameRecords ==
    { User(PStr("tomek"), PInt(0), PList(<<PInt(1), PInt(1), PInt(1)>>), NOT_REQUIRED),
      User(PStr("stas"), PInt(1), PList(<<PInt(1), PInt(1), PInt(1)>>), NOT_REQUIRED) }

FrameChanges == { << <<"age", PInt(1)>> >>, << <<"attrs", PInt(2)>> >> }

InitFrame == InitWith(DeleteModels)

NextFrame ==
    \/ \E data \in FrameRecords : Insert("users_db", data, "u1")
    \/ \E key \in KeptKeys, changes \in FrameChanges, mode \in SchemaModes :
            Update("users_db", key, changes, mode[1], mode[2])
    \/ \E key \in KeptKeys : Increment("users_db", key, "age")
    \/ \E key \in KeptKeys : Decrement("users_db", key, "age")
    \/ \E key \in KeptKeys : Delete("users_db", key)
    \/ \E key \in KeptKeys : Get("users_db", key)
    \/ GetAllModels("users_db")
    \/ GetAllKeys("users_db")

SpecFrame == InitFrame /\ [][NextFrame]_vars

-----------------------------------------------------------------------------
(* SpecRace: two processes, each with its engine on the same document file, *)
(* make one insert or delete each; the loads and the saves of the two calls *)
(* come in any order                                                        *)

\* the documents that inserts of DemoRecords have left: none, one or both
RaceDocuments ==
    LET db == [columns |-> build_from_model]
        both == UNION {DOMAIN insert(db, EmptyDoc, data, "u1").doc : data \in DemoRecords}
    IN  { [k \in K |-> (CHOOSE doc \in {insert(db, EmptyDoc, data, "u1").doc : data \in DemoRecords} :
                            k \in DOMAIN doc)[k]] : K \in SUBSET both }

InitRace ==
    /\ dbmodel \in DeleteModels
    /\ \E doc \in RaceDocuments :
        LET made == DatabaseInit({}, JsonFile(doc))
        IN  /\ register = made.register
            /\ file = made.file
            /\ handles = [h \in {"users_db"} |-> made.handle]
            /\ last = [op |-> "Database", h |-> "users_db", key |-> "", arg |-> NoArg,
                       iter_append |-> FALSE, iter_pop |-> FALSE,
                       ret |-> PNone, wrote |-> made.wrote, before |-> doc]
    /\ inflight = NoInflight

NextRace ==
    \/ \E p \in Processes, data \in DemoRecords : Begin(p, "insert", "", data)
    \/ \E p \in Processes, key \in KeptKeys : Begin(p, "delete", key, NoArg)
    \/ \E p \in Processes : Finish(p)

SpecRace == InitRace /\ [][NextRace]_vars

-----------------------------------------------------------------------------
(* Vocabulary of the properties *)

Registered == "users_db"

Returned(l) == ~IsRaise(l.ret)

ReturnedKey(l) == l.op = "insert" /\ TypeOf(l.ret) = "str"

\* every field value is of its column's declared type
Conforms(data) == \A f \in FieldSet : TypeOf(data[f]) = Annotations[f]

HasDefault(c) == build_from_model[c].default # UNDEFINED_DEFAULT_VALUE

\* value is given, is not of type_, and type_(value) fails
Unconvertible(type_, value) ==
    /\ value # NOT_REQUIRED
    /\ value # PNone
    /\ \/ type_ = "int" /\ TypeOf(value) = "str" /\ ~IsDecimal(Val(value))
       \/ type_ = "int" /\ TypeOf(value) \in {"list", "dict"}
       \/ type_ \in {"list", "dict"} /\ TypeOf(value) = "int"

\* column c alone carries an unconvertible value; the other values conform
OnlyInvalidAt(data, c) ==
    /\ Unconvertible(Annotations[c], data[c])
    /\ \A f \in FieldSet \ {c} : TypeOf(data[f]) = Annotations[f] /\ data[f] # NOT_REQUIRED

\* the attributes a field or composite key provider reads
KeyFields(key_provider) ==
    LET attributes == Split(RemovePrefix(key_provider, "!"), "+")
    IN  {attributes[i] : i \in 1..Len(attributes)}

FieldOrComposite(key_provider) ==
    key_provider # KEY_AS_UUID4 /\ ~StartsWith(key_provider, EXACT_PREFIX)

\* the record as a write persists it, column by column
Persisted(data) ==
    [c \in FieldSet |-> json_value(prepare_value(build_from_model[c], data[c]))]

-----------------------------------------------------------------------------
(* C1 .. C10 *)

\* C1: round trip. After insert(r) of a record r whose field values are all of
\* their column's type, the call has returned a key k, and get(k) gives a
\* record equal to r in every schema column.
C1_RoundTrip ==
    (last.op = "insert" /\ Conforms(last.arg)) =>
        /\ ReturnedKey(last)
        /\ TypeOf(get(file.doc, Val(last.ret))) = "model"
        /\ asdict(get(file.doc, Val(last.ret))[2]) = last.arg

\* C2: key determinism and overwrite. Under a field or composite key provider,
\* when an insert that returned a key is followed by an insert, returning a
\* key, of a record with the same values in the key-deriving fields, the two
\* keys are the same, the key set of the document is the same after the second
\* insert as before it, and the record under the key is the second record
\* (as it is persisted; the record itself when its values conform).
C2_KeyDeterminism ==
    [][ ( /\ FieldOrComposite(dbmodel.key_provider)
          /\ ReturnedKey(last)
          /\ ReturnedKey(last')
          /\ \A f \in KeyFields(dbmodel.key_provider) : last.arg[f] = last'.arg[f] )
        => ( /\ last'.ret = last.ret
             /\ DOMAIN file'.doc = DOMAIN file.doc
             /\ file'.doc[Val(last'.ret)] = Persisted(last'.arg)
             /\ (Conforms(last'.arg) /\ Persisted(last'.arg) = last'.arg)
                    => file'.doc[Val(last'.ret)] = last'.arg ) ]_vars

\* C2, witness: an insert under a field or composite provider has replaced the
\* record that an earlier insert left under the same key by a different one.
C2_Overwritten ==
    /\ FieldOrComposite(dbmodel.key_provider)
    /\ ReturnedKey(last)
    /\ Val(last.ret) \in DOMAIN last.before
    /\ last.before[Val(last.ret)] # file.doc[Val(last.ret)]
    /\ file.doc[Val(last.ret)] = last.arg

\* C3: idempotent engine creation. Every Database object constructed for the
\* registered name has the columns of the registered engine, and an insert or
\* update through any of them returns and leaves in the document what the
\* same call through the registered engine returns and leaves.
C3_HandlesEquivalent ==
    /\ \A h \in DOMAIN handles : handles[h].columns = handles[Registered].columns
    /\ last.op = "insert" =>
          [doc |-> file.doc, ret |-> last.ret, wrote |-> last.wrote]
              = insert(handles[Registered], last.before, last.arg, "u1")
    /\ last.op = "update" =>
          [doc |-> file.doc, ret |-> last.ret, wrote |-> last.wrote]
              = update(handles[Registered], last.before, last.key, last.arg,
                       last.iter_append, last.iter_pop)

\* C4: invalid-value rejection. With allow_invalid_values = false, an insert of
\* a record that carries, for a column without a default, a value that is not
\* of the column's type and cannot be converted to it leaves the document as
\* it was before the call.
C4_InvalidRejected ==
    ( /\ last.op = "insert"
      /\ ~dbmodel.allow_invalid_values
      /\ \E c \in FieldSet : ~HasDefault(c) /\ Unconvertible(Annotations[c], last.arg[c]) )
    => file.doc = last.before

\* C4, witness: such an insert was made on a document that held records.
C4_RejectedOnNonEmpty ==
    /\ last.op = "insert"
    /\ ~dbmodel.allow_invalid_values
    /\ \E c \in FieldSet : ~HasDefault(c) /\ Unconvertible(Annotations[c], last.arg[c])
    /\ DOMAIN last.before # {}
    /\ IsRaise(last.ret)

\* C5: validation default fallback. An insert of a record whose value for a
\* column with a default is not of the column's type (and cannot be converted
\* to it) returns a key, and the record under that key holds the column's
\* default.
C5_DefaultFallback ==
    \A c \in FieldSet :
        (last.op = "insert" /\ HasDefault(c) /\ OnlyInvalidAt(last.arg, c)) =>
            /\ ReturnedKey(last)
            /\ file.doc[Val(last.ret)][c] = build_from_model[c].default

\* C6: zero-fill. With allow_invalid_values = true, an insert of a record whose
\* value for a column without a default is not of the column's type (and
\* cannot be converted to it) returns a key, and the record under that key
\* holds the zero value of the column's type.
C6_ZeroFill ==
    \A c \in FieldSet :
        ( /\ last.op = "insert"
          /\ dbmodel.allow_invalid_values
          /\ ~HasDefault(c)
          /\ OnlyInvalidAt(last.arg, c) ) =>
            /\ ReturnedKey(last)
            /\ file.doc[Val(last.ret)][c] = type_zero(Annotations[c])

-----------------------------------------------------------------------------
(* update: the modes on list-typed and dict-typed columns (SpecUpdate) *)

\* the last call was update(key, {col: v}) through the registered engine on a
\* stored record, in the mode the flags give
UpdatedOne(l) ==
    /\ l.op = "update"
    /\ l.h = Registered
    /\ l.key \in DOMAIN l.before
    /\ Len(l.arg) = 1
    /\ l.arg[1][1] \in FieldSet

\* q without its element at position i
WithoutAt(q, i) == SubSeq(q, 1, i - 1) \o SubSeq(q, i + 1, Len(q))

\* C7: for a stored record whose list-typed column holds L, update(key, {col: v})
\* in append mode leaves the stored column equal to L with v as one new last
\* element, and in remove mode with v in L leaves it equal to L with one
\* occurrence of v taken out and the other elements in their order.
C7_ListAppendRemove ==
    UpdatedOne(last) =>
        LET col == last.arg[1][1]
            v == last.arg[1][2]
            old == last.before[last.key][col]
        IN  TypeOf(old) = "list" =>
                LET L == Val(old)
                IN  /\ (last.iter_append /\ ~last.iter_pop) =>
                          /\ last.key \in DOMAIN file.doc
                          /\ file.doc[last.key][col] = PList(Append(L, v))
                    /\ (last.iter_pop /\ ~last.iter_append /\ ListContains(L, v)) =>
                          /\ last.key \in DOMAIN file.doc
                          /\ TypeOf(file.doc[last.key][col]) = "list"
                          /\ \E i \in 1..Len(L) :
                                /\ L[i] = v
                                /\ Val(file.doc[last.key][col]) = WithoutAt(L, i)

\* the third step of the example: [1, 2, 3] with 2 removed is [1, 3]
C7_RemovedFromMiddle ==
    /\ UpdatedOne(last)
    /\ last.iter_pop /\ ~last.iter_append
    /\ last.arg = << <<"attrs", PInt(2)>> >>
    /\ last.before[last.key]["attrs"] = PList(<<PInt(1), PInt(2), PInt(3)>>)
    /\ file.doc[last.key]["attrs"] = PList(<<PInt(1), PInt(3)>>)

\* C8: for a stored record whose dict-typed column holds M, update(key, {col: V})
\* in append mode with V a dict leaves the stored column equal to M merged with
\* V: every entry of V, and every entry of M whose key is not in V.
C8_MapMerge ==
    UpdatedOne(last) =>
        LET col == last.arg[1][1]
            V == last.arg[1][2]
            M == last.before[last.key][col]
        IN  (/\ TypeOf(M) = "dict"
             /\ TypeOf(V) = "dict"
             /\ last.iter_append /\ ~last.iter_pop) =>
                /\ last.key \in DOMAIN file.doc
                /\ file.doc[last.key][col] = PDict(DictMerge(Val(M), Val(V)))

\* some change of the call asks to remove, from a list-typed column of the
\* stored record, a value the list does not hold
RemovesAbsent(l) ==
    \E i \in 1..Len(l.arg) :
        LET col == l.arg[i][1]
        IN  /\ col \in DOMAIN l.before[l.key]
            /\ TypeOf(l.before[l.key][col]) = "list"
            /\ ~ListContains(Val(l.before[l.key][col]), l.arg[i][2])

\* C9: when update is called in remove mode and, for some list-typed column of
\* the changes, the value to remove is not in the stored list, the call is
\* abandoned: the stored record is as before in every column, the columns
\* listed earlier in the changes included.
C9_AllOrNothingRemove ==
    (/\ last.op = "update"
     /\ last.h = Registered
     /\ last.iter_pop /\ ~last.iter_append
     /\ last.key \in DOMAIN last.before
     /\ RemovesAbsent(last)) =>
        /\ file.doc = last.before
        /\ last.ret = PNone

\* a remove of an absent value listed after a change of age: age is as before
C9_EarlierChangeDropped ==
    /\ last.op = "update"
    /\ last.iter_pop /\ ~last.iter_append
    /\ last.key \in DOMAIN last.before
    /\ last.arg = << <<"age", PInt(13)>>, <<"attrs", PInt(2)>> >>
    /\ RemovesAbsent(last)
    /\ last.before[last.key]["age"] = PInt(12)
    /\ file.doc[last.key]["age"] = PInt(12)

-----------------------------------------------------------------------------
(* Outcomes of the public calls *)

\* the error kinds of the interface: KeyNotFound, and the failure of a
\* coercion, which Python raises as ValueError or as TypeError
DocumentedErrors == {"KeyNotFound", "ValueError", "TypeError"}

\* a stored record has exactly the columns of the schema, each of its type
WholeRecord(r) == DOMAIN r = FieldSet /\ Conforms(r)

\* C10: every public call either returns its success value (insert: the key
\* used, a str) or fails with one of the documented error kinds, and every
\* stored record is a whole record: as before the call or as rewritten.
C10_SingleOutcome ==
    /\ IsRaise(last.ret) => last.ret[2] \in DocumentedErrors
    /\ (last.op = "insert" /\ Returned(last)) => TypeOf(last.ret) = "str"
    /\ \A key \in DOMAIN file.doc : WholeRecord(file.doc[key])
    /\ last.op \in {"insert", "update", "delete"} =>
          \A key \in DOMAIN file.doc :
              \/ key \in DOMAIN last.before /\ file.doc[key] = last.before[key]
              \/ key = last.key
              \/ last.op = "insert" /\ last.ret = PStr(key)

-----------------------------------------------------------------------------
(* increment and decrement (SpecCount) *)

\* the call l was increment or decrement, through the registered engine, of a
\* column of the schema in a stored record
Counted(l) ==
    /\ l.op \in {"increment", "decrement"}
    /\ l.h = Registered
    /\ l.arg \in FieldSet
    /\ l.key \in DOMAIN l.before

\* the value the call l found in its column
Found(l) == l.before[l.key][l.arg]

\* the sum of the number n and k, as a number: for a float it may be no double
ExactSum(n, k) ==
    IF TypeOf(n) = "int" THEN PInt(Val(n) + k) ELSE PFloat(Val(n)[1], Val(n)[2] + k)

\* the float x is a double
IsDouble(x) == Val(x)[1] = "0" \/ Val(x)[2] <= 0 \/ Val(x)[2] % 2 = 0

\* the record under the key of l differs from the one before in column l.arg alone
OthersKept(l, doc) ==
    /\ DOMAIN doc = DOMAIN l.before
    /\ \A key \in DOMAIN doc :
          \A c \in FieldSet : (key # l.key \/ c # l.arg) => doc[key][c] = l.before[key][c]

\* C11, as stated: increment of a column that holds a number n (an int or a
\* float) returns true and stores n + 1 with every other column as it was, and
\* a decrement of the same column that follows returns true and leaves the
\* document as it was before the increment.
C11_IncDecRoundTrip ==
    [][ /\ (last'.op = "increment" /\ Counted(last') /\ TypeOf(Found(last')) \in {"int", "float"}) =>
              /\ last'.ret = PBool(TRUE)
              /\ file'.doc[last'.key][last'.arg] = ExactSum(Found(last'), 1)
              /\ OthersKept(last', file'.doc)
        /\ ( /\ last.op = "increment" /\ Counted(last)
             /\ TypeOf(Found(last)) \in {"int", "float"}
             /\ last'.op = "decrement" /\ last'.h = Registered
             /\ last'.key = last.key /\ last'.arg = last.arg ) =>
              /\ last'.ret = PBool(TRUE)
              /\ file'.doc = last.before ]_vars

\* n is an int, or a float for which n + 1 is a double
ExactlyCountable(n) ==
    TypeOf(n) = "int" \/ (TypeOf(n) = "float" /\ IsDouble(ExactSum(n, 1)))

\* C11, amended: the same for a column that holds an int n, or a float n for
\* which n + 1 is representable exactly.
C11_IncDecExact ==
    [][ /\ (last'.op = "increment" /\ Counted(last') /\ ExactlyCountable(Found(last'))) =>
              /\ last'.ret = PBool(TRUE)
              /\ file'.doc[last'.key][last'.arg] = ExactSum(Found(last'), 1)
              /\ OthersKept(last', file'.doc)
        /\ ( /\ last.op = "increment" /\ Counted(last)
             /\ ExactlyCountable(Found(last))
             /\ last'.op = "decrement" /\ last'.h = Registered
             /\ last'.key = last.key /\ last'.arg = last.arg ) =>
              /\ last'.ret = PBool(TRUE)
              /\ file'.doc = last.before ]_vars

\* C11, witness: a decrement has brought back to 0 the age of the record
\* inserted with age 0, which an increment had set to 1.
C11_Restored ==
    /\ last.op = "decrement" /\ Counted(last)
    /\ last.arg = "age"
    /\ last.ret = PBool(TRUE)
    /\ last.before[last.key]["name"] = PStr("tomek")
    /\ Found(last) = PInt(1)
    /\ file.doc[last.key]["age"] = PInt(0)

\* C12: increment and decrement of a column of the schema whose stored value is
\* neither an int nor a float return false and leave the document as it was;
\* with a column name that is no column they raise KeyNotFound, whether or not
\* the key is stored.
C12_NonNumericRefused ==
    (last.op \in {"increment", "decrement"} /\ last.h = Registered) =>
        /\ last.arg \notin FieldSet =>
              last.ret = Raise("KeyNotFound") /\ file.doc = last.before
        /\ (Counted(last) /\ TypeOf(Found(last)) \notin {"int", "float"}) =>
              last.ret = PBool(FALSE) /\ file.doc = last.before

-----------------------------------------------------------------------------
(* _migrate (SpecMigrate) *)

\* the columns of the schema that the row lacks
MissingColumns(row) == FieldSet \ DOMAIN row

\* the row with every column it lacks set to the column's default, or to the
\* zero value of the column's type when the column has no default
Completed(row) ==
    [c \in (DOMAIN row) \cup FieldSet |->
        IF c \in DOMAIN row THEN row[c]
        ELSE IF HasDefault(c) THEN build_from_model[c].default
        ELSE type_zero(Annotations[c])]

Migrated(l) == l.op = "migrate" /\ l.h = Registered

C14_MigrateIdempotent ==
    [][ /\ (Migrated(last) /\ Migrated(last')) =>
              /\ last'.ret = PInt(0)
              /\ ~last'.wrote
              /\ file'.doc = file.doc
        /\ Migrated(last') =>
              /\ last'.wrote <=> (\E key \in DOMAIN file.doc : MissingColumns(file.doc[key]) # {})
              /\ ~last'.wrote => file'.doc = file.doc ]_vars

\* C14, witness: a migrate has returned zero without writing, on a document
\* that holds a record of an earlier schema with all the columns of this one.
C14_NothingToDo ==
    /\ Migrated(last)
    /\ last.ret = PInt(0)
    /\ ~last.wrote
    /\ \E key \in DOMAIN file.doc :
          /\ file.doc[key]["name"] = PStr("ola")
          /\ file.doc[key]["active"] = PBool(FALSE)
          /\ MissingColumns(file.doc[key]) = {}

-----------------------------------------------------------------------------
(* delete and get (SpecDelete) *)

\* C15: a delete(k) that returns has taken k, which was stored, out of the key
\* set; a get(k) or delete(k) that follows it raises KeyNotFound; get and delete
\* of any key that is not stored raise KeyNotFound and leave the document as it
\* was; and a key that is not stored comes into the key set by an insert that
\* returns that key, and in no other way.
C15_DeleteThenGet ==
    [][ /\ (last'.op = "delete" /\ Returned(last')) =>
              /\ last'.key \in DOMAIN file.doc
              /\ last'.key \notin DOMAIN file'.doc
        /\ ( /\ last.op = "delete" /\ Returned(last)
             /\ last'.op \in {"get", "delete"} /\ last'.key = last.key ) =>
              last'.ret = Raise("KeyNotFound")
        /\ (last'.op \in {"get", "delete"} /\ last'.key \notin DOMAIN file.doc) =>
              /\ last'.ret = Raise("KeyNotFound")
              /\ file'.doc = file.doc
        /\ \A key \in (DOMAIN file'.doc) \ (DOMAIN file.doc) :
              last'.op = "insert" /\ last'.ret = PStr(key) ]_vars

\* C15, witness: a delete has taken the stored record of tomek out of a
\* document that still holds the record of stas.
C15_GoneAfterDelete ==
    /\ last.op = "delete"
    /\ Returned(last)
    /\ last.key = "tomek"
    /\ last.key \in DOMAIN last.before
    /\ last.key \notin DOMAIN file.doc
    /\ "stas" \in DOMAIN file.doc


\* a predicate of the tree names a column that the flattened record lacks
RefersMissing(query_tree, d) ==
    \E i \in 1..Len(Flatten(query_tree)) : Flatten(query_tree)[i].column_name \notin DOMAIN d

\* a predicate of the tree compares a column that the record has with a value
\* of another kind (numbers are one kind; "in" asks for an element of a list,
\* a key of a dict or a part of a string)
Mistyped(query_tree, d) ==
    \E i \in 1..Len(Flatten(query_tree)) :
        LET q == Flatten(query_tree)[i]
            found == dict_get(d, q.column_name)
        IN  /\ q.column_name \in DOMAIN d
            /\ q.op \notin {"==", "!="}
            /\ IF q.op = "in"
               THEN \/ TypeOf(found) \notin {"list", "dict", "str"}
                    \/ TypeOf(found) = "str" /\ TypeOf(q.value) # "str"
                    \/ TypeOf(found) = "dict" /\ TypeOf(q.value) \in {"list", "dict"}
               ELSE ~(IsNumber(found) /\ IsNumber(q.value)) /\ TypeOf(found) # TypeOf(q.value)

\* what the predicate says of the record, a missing column making it false
Holds(q, d) ==
    /\ q.column_name \in DOMAIN d
    /\ LET found == d[q.column_name]
           n == IF IsNumber(found) THEN Val(py_float(found))[2] ELSE 0
           m == IF IsNumber(q.value) THEN Val(py_float(q.value))[2] ELSE 0
           before == IF IsNumber(found) THEN n < m ELSE str_lt(Val(found), Val(q.value))
           after == IF IsNumber(found) THEN n > m ELSE str_lt(Val(q.value), Val(found))
       IN  CASE q.op = "==" -> found = q.value
             [] q.op = "!=" -> found # q.value
             [] q.op = "<" -> before
             [] q.op = ">" -> after
             [] q.op = "<=" -> ~after
             [] q.op = ">=" -> ~before
             [] q.op = "in" ->
                    IF TypeOf(found) = "str"
                    THEN \E i \in 1..(Len(Val(found)) + 1), j \in 0..Len(Val(found)) :
                            SubSeq(Val(found), i, j) = Val(q.value)
                    ELSE \E e \in (IF TypeOf(found) = "list"
                                   THEN {Val(found)[i] : i \in 1..Len(Val(found))}
                                   ELSE DOMAIN Val(found)) : e = q.value

\* at least one clause has all of its predicates true
SomeClauseHolds(query_tree, d) ==
    \E c \in 1..Len(query_tree) : \A i \in 1..Len(query_tree[c]) : Holds(query_tree[c][i], d)

\* the flattened record that the last resolve was given
Flattened == asdict(get(file.doc, last.key)[2])

\* the stored records that the tree of the last query matches
Matching ==
    {get(file.doc, key)[2] : key \in {k \in DOMAIN file.doc :
        SomeClauseHolds(last.arg, asdict(get(file.doc, k)[2]))}}

\* C16: Database.query(tree) returns exactly the stored records that the tree
\* matches, none omitted and none added, and leaves the document unchanged.
\* (The order of the returned list is not stated: a document of this model
\* keeps no order.)
C16_QueryReturnsMatching ==
    (last.op = "query" /\ last.h = "users_db")
        => /\ TypeOf(last.ret) = "list"
           /\ {Val(last.ret)[i] : i \in 1..Len(Val(last.ret))} = Matching
           /\ Len(Val(last.ret)) = Cardinality(Matching)
           /\ file.doc = last.before

\* C17: for a tree of clauses of column comparisons and a flattened record that
\* has every referenced column (each compared with a value of its own kind),
\* resolve returns true iff at least one clause has all of its predicates true;
\* the tree [[age >= 18], [name == "stas"]] matches (age=12, name=stas) and
\* (age=20, name=x) and does not match (age=10, name=y).
C17_ResolveIsDNF ==
    (last.op = "resolve" /\ ~RefersMissing(last.arg, Flattened) /\ ~Mistyped(last.arg, Flattened))
        => /\ last.ret = PBool(SomeClauseHolds(last.arg, Flattened))
           /\ (last.arg = ExampleTree => last.ret = PBool(last.key \in {"stas", "x"}))

\* the example tree has matched (age=12, name=stas) through its second clause
C17_MatchedBySecondClause ==
    /\ last.op = "resolve"
    /\ last.arg = ExampleTree
    /\ last.key = "stas"
    /\ Flattened["age"] = PInt(12)
    /\ last.ret = PBool(TRUE)

\* C18: a predicate of any of the seven kinds on a column that the flattened
\* record lacks is false and never raises, whatever the other clauses are:
\* resolve returns whether some clause has all of its predicates true, with
\* the predicates on missing columns false.
C18_MissingColumnIsFalse ==
    (last.op = "resolve" /\ RefersMissing(last.arg, Flattened) /\ ~Mistyped(last.arg, Flattened))
        => last.ret = PBool(SomeClauseHolds(last.arg, Flattened))

\* the call l, made with the names reg registered, loads the document first
LoadsDocument(l, reg) ==
    \/ l.op = "Database" /\ ModelName \notin reg
    \/ l.op \in {"get", "delete", "migrate", "query"}
    \/ l.op = "update" /\ ~(l.iter_append /\ l.iter_pop)

\* C19: whenever a call loads a document that does not parse, at the creation
\* of the engine or in a later operation: with recovery enabled the corrupted
\* text is put in <documentpath>.dump behind the marker, the document becomes
\* the empty document and the call goes on without the parse error; with
\* recovery disabled the call raises the parse error and leaves the file as
\* it was.
C19_CorruptionRecovered ==
    [][ (LoadsDocument(last', register) /\ file.exists /\ Undecodable(file))
            => IF dbmodel.dump_on_error
               THEN /\ file'.dump = file.dump \o DUMP_MARKER \o file.text
                    /\ file'.text = ""
                    /\ file'.doc = EmptyDoc
                    /\ last'.ret # Raise("JSONDecodeError")
               ELSE /\ last'.ret = Raise("JSONDecodeError")
                    /\ file' = file ]_vars

\* the string forms of the named fields of the record, one after the other
RECURSIVE StringForms(_, _)
StringForms(attributes, data) ==
    IF Len(attributes) = 0 THEN ""
    ELSE py_str(data[Head(attributes)]) \o StringForms(Tail(attributes), data)

\* C20: under a composite provider name1+name2+..., whatever the column types
\* of the named fields, insert derives the key as the digest (with the "!"
\* prefix: the plain text) of the concatenation of the string forms of the
\* named fields in the listed order; the key depends on these values only,
\* not on the keys that are stored.
C20_CompositeKey ==
    (last.op = "insert" /\ HasChar(dbmodel.key_provider, "+"))
        => LET attributes == Split(RemovePrefix(dbmodel.key_provider, "!"), "+")
               seed == StringForms(attributes, last.arg)
           IN  last.ret = PStr(IF StartsWith(dbmodel.key_provider, "!") THEN seed
                                ELSE Sha1Hex(seed))

\* C21: from the empty document, after any sequence of insert, update
\* (replace, append or remove), increment, decrement and delete calls, every
\* stored record has exactly the column names of the schema (none missing, none
\* extra, not the _key attribute) and every stored value is of the declared
\* type of its column.
C21_SchemaConformance ==
    \A key \in DOMAIN file.doc : WholeRecord(file.doc[key])

\* C22: update(k, ...), increment(k, c), decrement(k, c) and delete(k) leave
\* the record stored under every other key as it was; update, increment and
\* decrement neither add nor remove a key (delete removes at most k); get,
\* get_all_models and get_all_keys leave the whole document as it was.
C22_KeyedWriteFrame ==
    [][ /\ last'.op \in {"update", "increment", "decrement", "delete"}
            => /\ \A k \in (DOMAIN file.doc) \ {last'.key} :
                    k \in DOMAIN file'.doc /\ file'.doc[k] = file.doc[k]
               /\ DOMAIN file'.doc \subseteq DOMAIN file.doc
               /\ last'.op # "delete" => DOMAIN file'.doc = DOMAIN file.doc
        /\ last'.op \in {"get", "get_all_models", "get_all_keys"}
            => file'.doc = file.doc ]_vars

\* C22, witness: an update has changed the record under its key in a document
\* that holds another record, which is as it was
C22_OtherRecordKept ==
    /\ last.op = "update"
    /\ Returned(last)
    /\ last.key = "tomek"
    /\ {"tomek", "stas"} \subseteq DOMAIN last.before
    /\ {"tomek", "stas"} \subseteq DOMAIN file.doc
    /\ file.doc["tomek"] # last.before["tomek"]
    /\ file.doc["stas"] = last.before["stas"]

\* the key that the finished call c has written or removed
ChangedKey(c) == IF c.op = "insert" THEN Val(c.ret) ELSE c.key

\* the finished call c has returned: it has saved its change
Saved(c) == c.pc = "done" /\ ~IsRaise(c.ret)

\* the change of the finished call c is in the document
ChangePresent(c, doc) ==
    IF c.op = "insert"
    THEN ChangedKey(c) \in DOMAIN doc /\ doc[ChangedKey(c)] = Persisted(c.arg)
    ELSE ChangedKey(c) \notin DOMAIN doc

\* the document that the call c has loaded, with the change of c
WithChange(c) ==
    IF c.op = "insert"
    THEN [k \in (DOMAIN c.read) \cup {ChangedKey(c)} |->
            IF k = ChangedKey(c) THEN Persisted(c.arg) ELSE c.read[k]]
    ELSE [k \in (DOMAIN c.read) \ {ChangedKey(c)} |-> c.read[k]]

\* C23: when the loads and the saves of two calls on the same document file
\* interleave, the document after a save is exactly the one its writer made of
\* what it had loaded (the last writer wins); when the two calls, on different
\* keys, did not overlap, the changes of both are in the document.
C23_LastWriterWins ==
    /\ (last.op \in {"insert", "delete"} /\ last.wrote)
            => file.doc = WithChange(inflight[last.h])
    /\ \A p \in Processes, q \in Processes :
            ( /\ p # q
              /\ Saved(inflight[p]) /\ Saved(inflight[q])
              /\ ChangedKey(inflight[p]) # ChangedKey(inflight[q])
              /\ ~inflight[p].overlapped /\ ~inflight[q].overlapped )
            => ( /\ ChangePresent(inflight[p], file.doc)
                 /\ ChangePresent(inflight[q], file.doc) )

\* C23, witness (lost update): two calls that overlapped have both returned,
\* and the change that the earlier writer made to another key is not in the
\* document
C23_LostUpdate ==
    \E p \in Processes, q \in Processes :
        /\ p # q
        /\ Saved(inflight[p]) /\ Saved(inflight[q])
        /\ inflight[p].overlapped /\ inflight[q].overlapped
        /\ ChangedKey(inflight[p]) # ChangedKey(inflight[q])
        /\ last.h = q
        /\ ChangePresent(inflight[q], file.doc)
        /\ ~ChangePresent(inflight[p], file.doc)

=========================================================================
